---- MODULE Spec2Model ----
(***************************************************************************)
(* Realtime audio "live" session manager of the creative-studio client     *)
(* (src/unnamed/part_001, lines 378-573).                                    *)
(*                                                                         *)
(* The module state is the set of module-level globals of the live API     *)
(* implementation plus the state of the host objects they refer to (audio  *)
(* contexts, microphone streams, transport connections, buffer sources)    *)
(* and the position of every asynchronous startLiveSession() call and of   *)
(* every suspended onmessage handler.                                      *)
(***************************************************************************)
EXTENDS Integers, Sequences, FiniteSets

\* ---------------------------------------------------------------- bounds
MaxCalls == 2   \* startLiveSession() calls in one behaviour
MaxMsgs  == 2   \* inbound messages delivered to onmessage in one behaviour
MaxTime  == 2   \* ticks of the output context's clock
MaxDur   == 2   \* longest decoded chunk, in clock ticks
MaxDrags == 2   \* pointer-downs that start a drag in one behaviour
MaxFrames == 2  \* blocks the input contexts deliver to onaudioprocess
MaxViews == 2   \* generated views in the grid
MaxSide == 3    \* width and height of a generated image, in pixels
MaxRotates == 2 \* handleRotate calls in one behaviour

\* ------------------------------------------------------ program constants
MinSize  == 40    \* smallest crop width and height a resize may produce
ZoomUnit == 1000  \* zoom is counted in steps of the wheel factor 0.001
ZoomMin  == 100   \* 0.1
ZoomMax  == 8000  \* 8

NULL == 0       \* the null reference (objects are numbered from 1)

Calls   == 1..MaxCalls
MsgIds  == 1..MaxMsgs
Ref     == 0..MaxCalls

Max(a, b) == IF a >= b THEN a ELSE b

VARIABLES
  \* module-level globals, part_001:380-386
  activeInputContext, activeOutputContext, activeMediaStream,
  activeSession, sessionPromise, activeSources, nextStartTime,
  \* host objects: object k was created by the k-th startLiveSession() call
  ctxIn, ctxOut,      \* AudioContext state: "none" | "running" | "closed"
  stream,             \* MediaStream tracks: "none" | "live" | "stopped"
  conn,               \* transport: "none" | "connecting" | "refused" | "open" |
                      \* "error" (error event delivered) | "closed"
  processor,          \* script processor wired by onopen of connection k
  sources,            \* AudioBufferSourceNode created for message m
  currentTime,        \* activeOutputContext.currentTime
  aistudio,           \* whether window.aistudio exists
  \* control state
  pc,                 \* position of each startLiveSession() call
  handlers,           \* onmessage invocations suspended at the await, oldest first
  nMsgs,              \* messages delivered so far
  statusLog,          \* what each call reported through onStatus, in order
  uncaught,           \* origins of errors that escaped a callback uncaught
  obs,                \* observations of the run that the properties refer to
  \* lightbox of the generated-views grid, GeneratedGrid.tsx:36-45 and 677-685
  grid,               \* which GeneratedGrid component is mounted (0: none yet)
  lightboxViewId, isComparing, isCropping,
  zoom,               \* in 1/ZoomUnit
  pan, isDragging, dragStartRef,
  \* crop editor mounted while isCropping, ImageCropper.tsx:14-18
  crop, loaded,
  img,                \* displayed size of the image imgRef points to
  activeInteraction,
  nDrags,             \* pointer-downs that started a drag so far
  \* microphone capture, part_001:504-524
  capture,            \* blocks captured so far, and per connection the sends
                      \* waiting for its promise to resolve
  \* application component, App.tsx and part_000
  app,                \* which application component is mounted (0: none yet)
  liveStatus,         \* part_000:118
  uiCall,             \* startLiveSession() calls made by toggleLiveSession
  generatedViews, selectedIds,
  rotations,          \* handleRotate calls that have not returned yet
  video,              \* the generateVideo call in progress or last finished
  inputMode           \* part_000:38

globalVars == <<activeInputContext, activeOutputContext, activeMediaStream,
                activeSession, sessionPromise, activeSources, nextStartTime,
                ctxIn, ctxOut, stream, sources, currentTime>>

vars == <<activeInputContext, activeOutputContext, activeMediaStream,
          activeSession, sessionPromise, activeSources, nextStartTime,
          ctxIn, ctxOut, stream, conn, processor, sources, currentTime, aistudio,
          pc, handlers, nMsgs, statusLog, uncaught, obs,
          grid, lightboxViewId, isComparing, isCropping, zoom, pan, isDragging,
          dragStartRef, crop, loaded, img, activeInteraction, nDrags,
          capture, app, liveStatus, uiCall, generatedViews, selectedIds,
          rotations, video, inputMode>>

\* everything the live session manager owns, except the observations
liveVars == <<activeInputContext, activeOutputContext, activeMediaStream,
              activeSession, sessionPromise, activeSources, nextStartTime,
              ctxIn, ctxOut, stream, conn, processor, sources, currentTime,
              aistudio, pc, handlers, nMsgs, statusLog, uncaught,
              capture, liveStatus, uiCall>>

appVars == <<app, generatedViews, selectedIds, rotations, video, inputMode>>

lightboxVars == <<grid, lightboxViewId, isComparing, isCropping, zoom, pan,
                  isDragging, dragStartRef>>

cropperVars == <<crop, loaded, img, activeInteraction>>

viewVars == <<lightboxVars, cropperVars, nDrags>>

Min(a, b) == IF a <= b THEN a ELSE b

ViewIds == 1..MaxViews
RotateIds == 1..MaxRotates
Directions == {"clockwise", "counterclockwise"}
Pixels(w, h) == (0..(w - 1)) \X (0..(h - 1))
\* a w x h image whose pixels are all different
MakeImage(w, h) == [width |-> w, height |-> h, px |-> [p \in Pixels(w, h) |-> p]]
NoImage == MakeImage(0, 0)
Images == {MakeImage(w, h) : w \in 1..MaxSide, h \in 1..MaxSide}
NoView == [present |-> FALSE, imageUrl |-> NoImage, isLoading |-> FALSE]
NoRotation == [state |-> "none", impl |-> 0, targets |-> {}, direction |-> "",
               urls |-> [v \in ViewIds |-> NoImage]]
\* No generateVideo call yet. pc, retryCount, prompt and hasImage are the
\* call's position and arguments; the other fields record what it has done:
\* entries of the try block, the retryCount values at which
\* hasSelectedApiKey() was called, openSelectKey() calls made by the catch
\* block, the messages of the failures caught, and how the call settled.
NoVideo == [pc |-> "idle", retryCount |-> 0, prompt |-> "", hasImage |-> FALSE,
            attempts |-> 0, keyChecks |-> {}, reselects |-> 0,
            failures |-> << >>, result |-> "", thrown |-> << >>]

Origin == [x |-> 0, y |-> 0]
NoCrop == [x |-> 0, y |-> 0, width |-> 0, height |-> 0]
NoImg == [width |-> 0, height |-> 0]
NoInteraction ==
  [type |-> "none", handle |-> "", startX |-> 0, startY |-> 0, startCrop |-> NoCrop]

NoSource == [state |-> "none", start |-> 0, dur |-> 0, ctx |-> NULL]
NoProcessor == [ctx |-> NULL, stream |-> NULL]
NoFresh == [id |-> 0, clock |-> 0, cursor |-> 0, clean |-> FALSE]

\* The globals and the objects they reach, as one value, so that the
\* synchronous pieces of the code compose as functions.
Cur ==
  [activeInputContext |-> activeInputContext,
   activeOutputContext |-> activeOutputContext,
   activeMediaStream |-> activeMediaStream,
   activeSession |-> activeSession,
   sessionPromise |-> sessionPromise,
   activeSources |-> activeSources,
   nextStartTime |-> nextStartTime,
   ctxIn |-> ctxIn, ctxOut |-> ctxOut, stream |-> stream,
   sources |-> sources, currentTime |-> currentTime]

Assign(g) ==
  /\ activeInputContext' = g.activeInputContext
  /\ activeOutputContext' = g.activeOutputContext
  /\ activeMediaStream' = g.activeMediaStream
  /\ activeSession' = g.activeSession
  /\ sessionPromise' = g.sessionPromise
  /\ activeSources' = g.activeSources
  /\ nextStartTime' = g.nextStartTime
  /\ ctxIn' = g.ctxIn
  /\ ctxOut' = g.ctxOut
  /\ stream' = g.stream
  /\ sources' = g.sources
  /\ currentTime' = g.currentTime

\* activeSources.forEach(s => { try { s.stop(); } catch(e) {} })
StopSources(srcs, set) ==
  [m \in MsgIds |-> IF m \in set /\ srcs[m].state = "playing"
                    THEN [srcs[m] EXCEPT !.state = "stopped"]
                    ELSE srcs[m]]

CloseCtx(ctx, ref) ==
  IF ref # NULL THEN [ctx EXCEPT ![ref] = "closed"] ELSE ctx

StopTracks(st, ref) ==
  IF ref # NULL THEN [st EXCEPT ![ref] = "stopped"] ELSE st

\* stopLiveSession without line 446 (sessionPromise = null)
StopLiveSessionKeepsPromise(g) ==
  [g EXCEPT
     !.activeSession = NULL,
     !.ctxIn = CloseCtx(g.ctxIn, g.activeInputContext),
     !.activeInputContext = NULL,
     !.ctxOut = CloseCtx(g.ctxOut, g.activeOutputContext),
     !.activeOutputContext = NULL,
     !.stream = StopTracks(g.stream, g.activeMediaStream),
     !.activeMediaStream = NULL,
     !.sources = StopSources(g.sources, g.activeSources),
     !.activeSources = {},
     !.nextStartTime = 0]

\* stopLiveSession, part_001:438-465. The connection is not touched: the
\* function never calls close() on the session.
StopLiveSession(g) ==
  [g EXCEPT
     !.activeSession = NULL,
     !.sessionPromise = NULL,
     !.ctxIn = CloseCtx(g.ctxIn, g.activeInputContext),
     !.activeInputContext = NULL,
     !.ctxOut = CloseCtx(g.ctxOut, g.activeOutputContext),
     !.activeOutputContext = NULL,
     !.stream = StopTracks(g.stream, g.activeMediaStream),
     !.activeMediaStream = NULL,
     !.sources = StopSources(g.sources, g.activeSources),
     !.activeSources = {},
     !.nextStartTime = 0]

\* part_001:486-489: two fresh audio contexts; a new context's clock starts at 0.
SetupAudio(g, k) ==
  [g EXCEPT
     !.ctxIn = [g.ctxIn EXCEPT ![k] = "running"],
     !.activeInputContext = k,
     !.ctxOut = [g.ctxOut EXCEPT ![k] = "running"],
     !.activeOutputContext = k,
     !.currentTime = 0]

\* the interrupted branch without line 553 (nextStartTime = 0)
InterruptKeepsCursor(g) ==
  [g EXCEPT
     !.sources = StopSources(g.sources, g.activeSources),
     !.activeSources = {}]

\* the interrupted branch of onmessage, part_001:548-554
Interrupt(g) ==
  [g EXCEPT
     !.sources = StopSources(g.sources, g.activeSources),
     !.activeSources = {},
     !.nextStartTime = 0]

LogStatus(k, s) == statusLog' = [statusLog EXCEPT ![k] = Append(@, s)]

\* onStatus(s) of call k; the callback the interface passes also stores the
\* status in liveStatus (part_000:283)
OnStatus(k, s) ==
  /\ LogStatus(k, s)
  /\ liveStatus' = IF k \in uiCall THEN s ELSE liveStatus

Suspended(k) == pc[k] \in {"hasKey", "selectKey", "getUserMedia", "connect"}

\* ------------------------------------------------------------ observations
\* obs records facts about the run so far; no action's guard reads it.
\*   stops            consecutive stopLiveSession() calls just made (capped at 2)
\*   cancelled        calls that were suspended at an await when the application
\*                    called stopLiveSession(), no start() having been called since
\*   failed           calls whose setup failed (they went through the catch block)
\*   remote           the last step was onclose or onerror
\*   schedLog         chunks started on the current output pipeline since the
\*                    cursor was last reset, in the order they were started, each
\*                    with the clock at that moment and whether a later handler
\*                    was already suspended behind it
\*   flushedInFlight  messages whose handler was suspended when an interruption
\*                    was processed
\*   interrupted      the last step processed an interruption
\*   awaitingFirst    an interruption was processed and no chunk was enqueued since
\*   cleanFlush       no handler was suspended when that interruption was processed
\*   fresh            the first chunk enqueued after an interruption, with the clock
\*                    and the cursor at that moment; dropped at the next cursor reset
\*   decodeFailed     messages whose audio payload decodeAudioData rejected
\*   handled          the message whose onmessage handler ended in the last step
\*                    (by returning or by throwing) and its interrupted flag
\*   stopped          the application called stopLiveSession() and has not called
\*                    startLiveSession() since
\*   block            the audioprocess event of the last step: the input context
\*                    that delivered it, how many sendRealtimeInput calls were
\*                    made or queued for it, how many of them were made at once,
\*                    the promise they were chained to and their mime type
\*   flushed          queued sends made in the last step because their
\*                    connection's promise resolved
\*   rotation         the handleRotate call that finished in the last step: its
\*                    direction, the views it rotated (ok), the targets it did
\*                    not rotate (kept), the images it read (src) and the
\*                    imageUrl of every view before it finished (before)
\*   gate             per call that has not called connect() yet, what
\*                    hasSelectedApiKey() resolved to ("unknown" before it did),
\*                    whether openSelectKey() was called and whether it has
\*                    resolved
\*   initiated        the call that called connect() in the last step, with its
\*                    gate record at that moment
\*   staleError       the call that reported 'error' from the catch block in
\*                    the last step, if it was cancelled
\*   commit           how the last step's click on the crop editor's save button
\*                    ended ("saved": onSave was invoked; "threw": an exception
\*                    reached the caller; "returned": a plain return), whether a
\*                    2D context was available, and the rectangle before it
\*   wheel            the wheel event the last step handled and the zoom before it
\*   ignored          the pointer event the last step's handler returned early
\*                    from, and the pan before it
\*   drag             the pan and the pointer position at the last left-button
\*                    pointer-down of the lightbox
\*   panMove          the position of the pointer-move the last step applied to
\*                    the pan
NoGate == [hasKey |-> "unknown", selectCalled |-> FALSE, selectResolved |-> FALSE]
NoHandled == [id |-> 0, interrupted |-> FALSE]
NoBlock == [fired |-> FALSE, ctx |-> NULL, sends |-> 0, sent |-> 0, to |-> NULL,
            mimeType |-> ""]
NoRotated == [done |-> FALSE, direction |-> "", ok |-> {}, kept |-> {},
              src |-> [v \in ViewIds |-> NoImage],
              before |-> [v \in ViewIds |-> NoImage]]
NoInitiated == [call |-> 0, gate |-> NoGate]
NoCommit == [ctx |-> TRUE, outcome |-> "none", cropBefore |-> NoCrop]
NoWheel == [fired |-> FALSE, deltaY |-> 0, before |-> 0]
NoIgnored == [kind |-> "none", panBefore |-> Origin]
NoDrag == [panAtDown |-> Origin, down |-> Origin]
NoPanMove == [fired |-> FALSE, cur |-> Origin]

ObsInit ==
  [stops |-> 0, cancelled |-> {}, failed |-> {}, remote |-> FALSE,
   schedLog |-> << >>, flushedInFlight |-> {}, interrupted |-> FALSE,
   awaitingFirst |-> FALSE, cleanFlush |-> FALSE, fresh |-> NoFresh,
   decodeFailed |-> {}, handled |-> NoHandled,
   stopped |-> FALSE, block |-> NoBlock, flushed |-> 0,
   rotation |-> NoRotated,
   gate |-> [k \in Calls |-> NoGate], initiated |-> NoInitiated, staleError |-> {},
   commit |-> NoCommit, wheel |-> NoWheel, ignored |-> NoIgnored, drag |-> NoDrag,
   panMove |-> NoPanMove]

ObsStep(o) ==
  [o EXCEPT !.stops = 0, !.remote = FALSE, !.interrupted = FALSE,
            !.staleError = {}, !.initiated = NoInitiated, !.handled = NoHandled,
            !.block = NoBlock, !.flushed = 0]

ObsReset(o) == [o EXCEPT !.schedLog = << >>, !.awaitingFirst = FALSE, !.fresh = NoFresh]

ObsInterrupt(o, inflight) ==
  [o EXCEPT !.schedLog = << >>, !.fresh = NoFresh, !.awaitingFirst = TRUE,
            !.interrupted = TRUE,
            !.cleanFlush = (inflight = {}),
            !.flushedInFlight = @ \cup inflight]

ObsView(o) ==
  [o EXCEPT !.commit = NoCommit, !.wheel = NoWheel, !.ignored = NoIgnored,
            !.panMove = NoPanMove, !.rotation = NoRotated]

HandlerIds(hs) == {hs[i].id : i \in 1..Len(hs)}

Init ==
  /\ activeInputContext = NULL /\ activeOutputContext = NULL
  /\ activeMediaStream = NULL /\ activeSession = NULL /\ sessionPromise = NULL
  /\ activeSources = {} /\ nextStartTime = 0
  /\ ctxIn = [k \in Calls |-> "none"] /\ ctxOut = [k \in Calls |-> "none"]
  /\ stream = [k \in Calls |-> "none"] /\ conn = [k \in Calls |-> "none"]
  /\ processor = [k \in Calls |-> NoProcessor]
  /\ sources = [m \in MsgIds |-> NoSource]
  /\ currentTime = 0
  /\ aistudio \in BOOLEAN
  /\ pc = [k \in Calls |-> "idle"]
  /\ handlers = << >> /\ nMsgs = 0
  /\ statusLog = [k \in Calls |-> << >>]
  /\ uncaught = {}
  /\ obs = ObsInit
  /\ grid = 0 /\ lightboxViewId = NULL
  /\ isComparing = FALSE /\ isCropping = FALSE
  /\ zoom = ZoomUnit /\ pan = Origin
  /\ isDragging = FALSE /\ dragStartRef = Origin
  /\ crop = NoCrop /\ loaded = FALSE /\ img = NoImg
  /\ activeInteraction = NoInteraction
  /\ nDrags = 0
  /\ capture = [nFrames |-> 0, pending |-> [k \in Calls |-> 0]]
  /\ app = 0 /\ liveStatus = "idle" /\ uiCall = {}
  /\ generatedViews = [v \in ViewIds |-> NoView] /\ selectedIds = {}
  /\ rotations = [c \in RotateIds |-> NoRotation]
  /\ video = NoVideo
  /\ inputMode = "upload"

\* ------------------------------------------------------------ stop / start

\* stopLiveSession() called by the application, part_001:438-465
StopCall ==
  /\ Assign(StopLiveSession(Cur))
  /\ obs' = [ObsReset(ObsStep(obs)) EXCEPT
               !.stops = IF obs.stops < 2 THEN obs.stops + 1 ELSE 2,
               !.stopped = TRUE,
               !.cancelled = obs.cancelled \cup {k \in Calls : Suspended(k)}]
  /\ UNCHANGED <<conn, processor, aistudio, viewVars, capture, pc, handlers, nMsgs,
                 statusLog, uncaught>>

\* A call of the exported stopLiveSession() that leaves the interface alone.
Stop ==
  /\ StopCall
  /\ UNCHANGED <<appVars, uiCall, liveStatus>>

\* startLiveSession reporting 'connected' on entry
StartReportsConnected(k) ==
  /\ pc[k] = "idle"
  /\ \A j \in Calls : j < k => pc[j] # "idle"
  /\ OnStatus(k, "connected")
  /\ Assign(StopLiveSession(Cur))
  /\ pc' = [pc EXCEPT ![k] = "done"]
  /\ obs' = [ObsReset(ObsStep(obs)) EXCEPT !.cancelled = {}, !.stopped = FALSE]
  /\ UNCHANGED <<conn, processor, aistudio, viewVars, appVars, uiCall, capture, handlers, nMsgs, uncaught>>

\* startLiveSession up to its first await, part_001:467-491.
StartCall(k) ==
  /\ pc[k] = "idle"
  /\ \A j \in Calls : j < k => pc[j] # "idle"
  /\ LogStatus(k, "connecting")
  /\ IF aistudio
       THEN /\ Assign(StopLiveSession(Cur))
            /\ pc' = [pc EXCEPT ![k] = "hasKey"]
       ELSE /\ Assign(SetupAudio(StopLiveSession(Cur), k))
            /\ pc' = [pc EXCEPT ![k] = "getUserMedia"]
  /\ obs' = [ObsReset(ObsStep(obs)) EXCEPT !.cancelled = {}, !.stopped = FALSE]
  /\ UNCHANGED <<conn, processor, aistudio, viewVars, capture, handlers, nMsgs, uncaught>>

\* A call of startLiveSession whose onStatus is not the interface's.
Start(k) ==
  /\ StartCall(k)
  /\ UNCHANGED <<appVars, uiCall, liveStatus>>

\* ------------------------------------------------------------ live panel

InputModes == {"upload", "live"}

\* toggleLiveSession, part_000:281-284; its button is shown in live mode
\* (line 611) and disabled while liveStatus is 'connecting' (line 622)
ToggleLiveSession ==
  /\ inputMode = "live"
  /\ liveStatus # "connecting"
  /\ IF liveStatus = "connected" \/ liveStatus = "connecting"
       THEN /\ StopCall
            /\ liveStatus' = "idle"
            /\ UNCHANGED uiCall
       ELSE \E k \in Calls :
              /\ StartCall(k)
              /\ uiCall' = uiCall \cup {k}
              /\ liveStatus' = "connecting"
  /\ UNCHANGED appVars

\* setInputModeAndClear, part_000:166-171
SetInputModeAndClear(mode) ==
  /\ mode # inputMode
  /\ IF inputMode = "live" /\ mode # "live"
       THEN /\ StopCall
            /\ liveStatus' = "idle"
            /\ UNCHANGED uiCall
       ELSE /\ obs' = ObsStep(obs)
            /\ UNCHANGED <<liveVars, viewVars>>
  /\ inputMode' = mode
  /\ UNCHANGED <<app, generatedViews, selectedIds, rotations, video>>

\* catch block, part_001:568-572
Catch(k) ==
  /\ OnStatus(k, "error")
  /\ Assign(StopLiveSession(Cur))
  /\ pc' = [pc EXCEPT ![k] = "done"]
  /\ obs' = [ObsReset(ObsStep(obs)) EXCEPT
               !.failed = @ \cup {k},
               !.staleError = {k} \cap obs.cancelled,
               !.gate[k] = NoGate]
  /\ UNCHANGED <<processor, aistudio, viewVars, appVars, uiCall, capture, handlers, nMsgs, uncaught>>

\* the key check with openSelectKey() never called
HasKeyResolvesSkipsSelect(k, hasKey) ==
  /\ pc[k] = "hasKey"
  /\ Assign(SetupAudio(Cur, k))
  /\ pc' = [pc EXCEPT ![k] = "getUserMedia"]
  /\ obs' = [ObsReset(ObsStep(obs)) EXCEPT
               !.gate[k].hasKey = IF hasKey THEN "true" ELSE "false"]
  /\ UNCHANGED <<conn, processor, aistudio, viewVars, appVars, uiCall, capture, handlers, nMsgs, statusLog, liveStatus, uncaught>>

\* await win.aistudio.hasSelectedApiKey() resolves, part_001:476-491
HasKeyResolves(k, hasKey) ==
  /\ pc[k] = "hasKey"
  /\ IF hasKey
       THEN /\ Assign(SetupAudio(Cur, k))
            /\ pc' = [pc EXCEPT ![k] = "getUserMedia"]
            /\ obs' = [ObsReset(ObsStep(obs)) EXCEPT !.gate[k].hasKey = "true"]
       ELSE /\ UNCHANGED globalVars
            /\ pc' = [pc EXCEPT ![k] = "selectKey"]
            /\ obs' = [ObsStep(obs) EXCEPT !.gate[k].hasKey = "false",
                                           !.gate[k].selectCalled = TRUE]
  /\ UNCHANGED <<conn, processor, aistudio, viewVars, appVars, uiCall, capture, handlers, nMsgs, statusLog, liveStatus, uncaught>>

HasKeyRejects(k) ==
  /\ pc[k] = "hasKey"
  /\ Catch(k)
  /\ UNCHANGED conn

\* await win.aistudio.openSelectKey() resolves, part_001:478-491
SelectKeyResolves(k) ==
  /\ pc[k] = "selectKey"
  /\ Assign(SetupAudio(Cur, k))
  /\ pc' = [pc EXCEPT ![k] = "getUserMedia"]
  /\ obs' = [ObsReset(ObsStep(obs)) EXCEPT !.gate[k].selectResolved = TRUE]
  /\ UNCHANGED <<conn, processor, aistudio, viewVars, appVars, uiCall, capture, handlers, nMsgs, statusLog, liveStatus, uncaught>>

SelectKeyRejects(k) ==
  /\ pc[k] = "selectKey"
  /\ Catch(k)
  /\ UNCHANGED conn

\* getUserMedia resolves: the stream is stored and the connection is initiated,
\* part_001:491-566
GetUserMediaResolves(k) ==
  /\ pc[k] = "getUserMedia"
  /\ Assign([Cur EXCEPT !.stream = [stream EXCEPT ![k] = "live"],
                        !.activeMediaStream = k,
                        !.sessionPromise = k])
  /\ conn' = [conn EXCEPT ![k] = "connecting"]
  /\ pc' = [pc EXCEPT ![k] = "connect"]
  /\ obs' = [ObsStep(obs) EXCEPT
               !.initiated = [call |-> k, gate |-> obs.gate[k]],
               !.gate[k] = NoGate]
  /\ UNCHANGED <<processor, aistudio, viewVars, appVars, uiCall, capture, handlers, nMsgs, statusLog, liveStatus, uncaught>>

GetUserMediaRejects(k) ==
  /\ pc[k] = "getUserMedia"
  /\ Catch(k)
  /\ UNCHANGED conn

\* onopen, part_001:504-524: the capture stage is wired only if both the
\* input context and the microphone stream are held.
OnOpen(proc, k) ==
  IF activeInputContext # NULL /\ activeMediaStream # NULL
    THEN [proc EXCEPT ![k] = [ctx |-> activeInputContext, stream |-> activeMediaStream]]
    ELSE proc

\* The handshake succeeds: onopen runs, the promise resolves, the sends
\* chained to it (part_001:517-519) are made and the call stores the session
\* (part_001:566).
ConnectResolves(k) ==
  /\ pc[k] = "connect"
  /\ conn[k] = "connecting"
  /\ conn' = [conn EXCEPT ![k] = "open"]
  /\ OnStatus(k, "connected")
  /\ processor' = OnOpen(processor, k)
  /\ Assign([Cur EXCEPT !.activeSession = k])
  /\ pc' = [pc EXCEPT ![k] = "done"]
  /\ capture' = [capture EXCEPT !.pending[k] = 0]
  /\ obs' = [ObsStep(obs) EXCEPT !.flushed = capture.pending[k]]
  /\ UNCHANGED <<aistudio, viewVars, appVars, uiCall, handlers, nMsgs, uncaught>>

\* The handshake is rejected: await sessionPromise throws into the catch block.
ConnectRejects(k) ==
  /\ pc[k] = "connect"
  /\ conn[k] = "connecting"
  /\ conn' = [conn EXCEPT ![k] = "refused"]
  /\ Catch(k)

\* onclose, part_001:556-558
OnClose(k) ==
  /\ conn[k] = "open"
  /\ conn' = [conn EXCEPT ![k] = "closed"]
  /\ OnStatus(k, "disconnected")
  /\ obs' = [ObsStep(obs) EXCEPT !.remote = TRUE]
  /\ UNCHANGED globalVars
  /\ UNCHANGED <<processor, aistudio, viewVars, appVars, uiCall, capture, pc, handlers, nMsgs, uncaught>>

\* onerror, part_001:559-562
OnError(k) ==
  /\ conn[k] = "open"
  /\ conn' = [conn EXCEPT ![k] = "error"]
  /\ OnStatus(k, "error")
  /\ obs' = [ObsStep(obs) EXCEPT !.remote = TRUE]
  /\ UNCHANGED globalVars
  /\ UNCHANGED <<processor, aistudio, viewVars, appVars, uiCall, capture, pc, handlers, nMsgs, uncaught>>

\* ------------------------------------------------------------ playback

\* onmessage up to its await, part_001:525-535 (and 548-554 when there is no
\* audio to decode). audio is "none", "ok" (a well-formed payload of dur
\* ticks) or "bad" (a payload decodeAudioData rejects).
OnMessage(k, audio, dur, interrupted) ==
  /\ conn[k] = "open"
  /\ nMsgs < MaxMsgs
  /\ nMsgs' = nMsgs + 1
  /\ IF audio # "none" /\ activeOutputContext # NULL
       THEN /\ Assign([Cur EXCEPT !.nextStartTime = Max(nextStartTime, currentTime)])
            /\ handlers' = Append(handlers,
                 [id |-> nMsgs + 1, conn |-> k, audio |-> audio, dur |-> dur,
                  interrupted |-> interrupted])
            /\ obs' = IF obs.awaitingFirst
                        THEN [ObsStep(obs) EXCEPT
                                !.awaitingFirst = FALSE,
                                !.fresh = [id |-> nMsgs + 1, clock |-> currentTime,
                                           cursor |-> Max(nextStartTime, currentTime),
                                           clean |-> obs.cleanFlush /\ handlers = << >>]]
                        ELSE ObsStep(obs)
       ELSE /\ handlers' = handlers
            /\ IF interrupted
                 THEN /\ Assign(Interrupt(Cur))
                      /\ obs' = [ObsInterrupt(ObsStep(obs), HandlerIds(handlers)) EXCEPT
                                   !.handled = [id |-> nMsgs + 1, interrupted |-> TRUE]]
                 ELSE /\ UNCHANGED globalVars
                      /\ obs' = [ObsStep(obs) EXCEPT
                                   !.handled = [id |-> nMsgs + 1, interrupted |-> FALSE]]
  /\ UNCHANGED <<conn, processor, aistudio, viewVars, appVars, uiCall, capture, pc, statusLog, liveStatus, uncaught>>

\* scheduling without line 544 (nextStartTime += audioBuffer.duration)
ScheduleKeepsCursor(g, m, dur) ==
  [g EXCEPT
     !.sources = [g.sources EXCEPT ![m] =
                     [state |-> "playing", start |-> g.nextStartTime, dur |-> dur,
                      ctx |-> g.activeOutputContext]],
     !.activeSources = g.activeSources \cup {m}]

\* scheduling without line 545 (activeSources.add(source))
ScheduleUnregistered(g, m, dur) ==
  [g EXCEPT
     !.sources = [g.sources EXCEPT ![m] =
                     [state |-> "playing", start |-> g.nextStartTime, dur |-> dur,
                      ctx |-> g.activeOutputContext]],
     !.nextStartTime = g.nextStartTime + dur]

\* part_001:537-545: the chunk is started at the cursor and registered
Schedule(g, m, dur) ==
  [g EXCEPT
     !.sources = [g.sources EXCEPT ![m] =
                     [state |-> "playing", start |-> g.nextStartTime, dur |-> dur,
                      ctx |-> g.activeOutputContext]],
     !.nextStartTime = g.nextStartTime + dur,
     !.activeSources = g.activeSources \cup {m}]

\* What stops the continuation of a handler, if anything: decodeAudioData
\* rejected (part_001:413), activeOutputContext is null at line 537, or the
\* new source belongs to another context than the handler's outputNode
\* (line 539).
ResumeError(h) ==
  IF h.audio = "bad" THEN "decode"
  ELSE IF activeOutputContext = NULL THEN "null-context"
  ELSE IF activeOutputContext # h.conn THEN "foreign-node"
  ELSE "none"

\* the continuation of the oldest suspended onmessage handler, part_001:536-555
Resume ==
  /\ handlers # << >>
  /\ LET h == Head(handlers)
         rest == Tail(handlers)
     IN /\ handlers' = rest
        /\ IF ResumeError(h) # "none"
             THEN /\ uncaught' = uncaught \cup {ResumeError(h)}
                  /\ UNCHANGED globalVars
                  /\ obs' = [ObsStep(obs) EXCEPT
                               !.decodeFailed = IF ResumeError(h) = "decode"
                                                  THEN @ \cup {h.id} ELSE @,
                               !.handled = [id |-> h.id, interrupted |-> h.interrupted]]
             ELSE /\ uncaught' = uncaught
                  /\ IF h.interrupted
                       THEN /\ Assign(Interrupt(Schedule(Cur, h.id, h.dur)))
                            /\ obs' = [ObsInterrupt(ObsStep(obs), HandlerIds(rest)) EXCEPT
                                         !.handled = [id |-> h.id, interrupted |-> TRUE]]
                       ELSE /\ Assign(Schedule(Cur, h.id, h.dur))
                            /\ obs' = [ObsStep(obs) EXCEPT
                                 !.handled = [id |-> h.id, interrupted |-> FALSE],
                                 !.schedLog = Append(@,
                                    [id |-> h.id, start |-> nextStartTime,
                                     dur |-> h.dur, clock |-> currentTime,
                                     overlap |-> rest # << >>])]
  /\ UNCHANGED <<conn, processor, aistudio, viewVars, appVars, uiCall, capture, pc, nMsgs, statusLog, liveStatus>>

\* the clock of the running output context advances
Tick ==
  /\ activeOutputContext # NULL
  /\ currentTime < MaxTime
  /\ currentTime' = currentTime + 1
  /\ obs' = ObsStep(obs)
  /\ UNCHANGED <<activeInputContext, activeOutputContext, activeMediaStream,
                 activeSession, sessionPromise, activeSources, nextStartTime,
                 ctxIn, ctxOut, stream, sources,
                 conn, processor, aistudio, viewVars, appVars, uiCall, capture, pc, handlers, nMsgs, statusLog, liveStatus, uncaught>>

\* a source plays to its end: its 'ended' listener removes it, part_001:540-542
SourceEnded(m) ==
  /\ sources[m].state = "playing"
  /\ \/ sources[m].ctx = activeOutputContext
        /\ currentTime >= sources[m].start + sources[m].dur
     \/ sources[m].ctx # activeOutputContext
        /\ ctxOut[sources[m].ctx] = "running"
  /\ sources' = [sources EXCEPT ![m].state = "ended"]
  /\ activeSources' = activeSources \ {m}
  /\ obs' = ObsStep(obs)
  /\ UNCHANGED <<activeInputContext, activeOutputContext, activeMediaStream,
                 activeSession, sessionPromise, nextStartTime,
                 ctxIn, ctxOut, stream, currentTime,
                 conn, processor, aistudio, viewVars, appVars, uiCall, capture, pc, handlers, nMsgs, statusLog, liveStatus, uncaught>>

\* ------------------------------------------------------------ capture

\* createBlob, part_001:426-436: the mime type of an encoded block
CreateBlob == [mimeType |-> "audio/pcm;rate=16000"]

\* An audioprocess event of the running input context c reaches the
\* onaudioprocess handler of every script processor wired to it
\* (part_001:513-520). Each handler chains one send to the promise that
\* sessionPromise refers to at that moment: the send is made at once if that
\* promise has resolved, when it resolves if it is pending, and never if it
\* was rejected.
AudioProcess(c) ==
  /\ ctxIn[c] = "running"
  /\ capture.nFrames < MaxFrames
  /\ LET wired == {k \in Calls : processor[k].ctx = c}
         n == Cardinality(wired)
         to == sessionPromise
         state == IF to = NULL THEN "none" ELSE conn[to]
     IN /\ wired # {}
        /\ capture' = [capture EXCEPT
                         !.nFrames = @ + 1,
                         !.pending = IF state = "connecting"
                                       THEN [@ EXCEPT ![to] = @ + n] ELSE @]
        /\ obs' = [ObsStep(obs) EXCEPT
                     !.block = [fired |-> TRUE, ctx |-> c,
                                sends |-> IF state \in {"none", "refused"} THEN 0 ELSE n,
                                sent |-> IF state \in {"open", "closed", "error"}
                                           THEN n ELSE 0,
                                to |-> to, mimeType |-> CreateBlob.mimeType]]
  /\ UNCHANGED globalVars
  /\ UNCHANGED <<conn, processor, aistudio, viewVars, appVars, uiCall, pc, handlers,
                 nMsgs, statusLog, liveStatus, uncaught>>

\* ------------------------------------------------------------ rotation

\* ctx.rotate by +90 or -90 degrees (App.tsx:28): where the user-space point p
\* lands; the canvas y axis points down
CtxRotateSameDirection(direction, p) == <<-p[2], p[1]>>

CtxRotate(direction, p) ==
  IF direction = "clockwise" THEN <<-p[2], p[1]>> ELSE <<p[2], -p[1]>>

\* The canvas pixel that source pixel p is drawn on, App.tsx:24-29. Lengths
\* are in half pixels, so the pixel's centre and the halves of the sizes are
\* whole numbers.
DrawnAt(image, direction, p) ==
  LET canvas == [width |-> image.height, height |-> image.width]
      \* drawImage(img, -img.width / 2, -img.height / 2)
      user == <<2 * p[1] + 1 - image.width, 2 * p[2] + 1 - image.height>>
      r == CtxRotate(direction, user)
      \* translate(canvas.width / 2, canvas.height / 2)
      c == <<r[1] + canvas.width, r[2] + canvas.height>>
  IN <<(c[1] - 1) \div 2, (c[2] - 1) \div 2>>

\* rotateImage, App.tsx:12-36 and part_000:12-32: the image on the canvas
RotateImage(image, direction) ==
  [width |-> image.height, height |-> image.width,
   px |-> [d \in Pixels(image.height, image.width) |->
             image.px[CHOOSE p \in DOMAIN image.px :
                        DrawnAt(image, direction, p) = d]]]

\* A generated view appears in the grid, with or without an image.
AddView(v, url) ==
  /\ ~generatedViews[v].present
  /\ \A u \in ViewIds : u < v => generatedViews[u].present
  /\ generatedViews' = [generatedViews EXCEPT
                          ![v] = [present |-> TRUE, imageUrl |-> url,
                                  isLoading |-> FALSE]]
  /\ obs' = ObsView(obs)
  /\ UNCHANGED <<liveVars, viewVars, app, selectedIds, rotations, video, inputMode>>

\* onToggleSelection, part_000:542
ToggleSelection(v) ==
  /\ generatedViews[v].present
  /\ selectedIds' = IF v \in selectedIds THEN selectedIds \ {v}
                                         ELSE selectedIds \cup {v}
  /\ obs' = ObsView(obs)
  /\ UNCHANGED <<liveVars, viewVars, app, generatedViews, rotations, video, inputMode>>

\* handleRotate up to its await, App.tsx:333-351 (impl 1) and
\* part_000:262-268 (impl 2): the targets are marked loading and rotateImage is
\* called on the image each target has now.
HandleRotate(impl, targetId, direction) ==
  /\ app \in {0, impl}
  /\ generatedViews[targetId].present
  /\ \E c \in RotateIds :
       /\ rotations[c].state = "none"
       /\ \A j \in RotateIds : j < c => rotations[j].state # "none"
       /\ LET targets == IF targetId \in selectedIds THEN selectedIds
                                                     ELSE {targetId}
          IN /\ generatedViews' =
                  [v \in ViewIds |->
                     IF v \in targets /\ generatedViews[v].present
                       THEN [generatedViews[v] EXCEPT !.isLoading = TRUE]
                       ELSE generatedViews[v]]
             /\ rotations' =
                  [rotations EXCEPT
                     ![c] = [state |-> "pending", impl |-> impl,
                             targets |-> targets, direction |-> direction,
                             urls |-> [v \in ViewIds |->
                                         IF v \in targets
                                           THEN generatedViews[v].imageUrl
                                           ELSE NoImage]]]
  /\ app' = impl
  /\ obs' = ObsView(obs)
  /\ UNCHANGED <<liveVars, viewVars, selectedIds, video, inputMode>>

\* Every rotateImage promise of call c has settled, those of the views in
\* failed by rejecting (no 2d context, or the image did not load), and
\* handleRotate resumes: App.tsx:343-363, part_000:266-270. In part_000 a
\* rejection rejects Promise.all and the last setGeneratedViews is not reached.
RotateSettled(c, failed) ==
  LET call == rotations[c]
      withUrl == {v \in call.targets : call.urls[v] # NoImage}
      ok == withUrl \ failed
      newUrl(v) == RotateImage(call.urls[v], call.direction)
      thrown == call.impl = 2 /\ failed # {}
  IN /\ call.state = "pending"
     /\ failed \subseteq withUrl
     /\ generatedViews' =
          [v \in ViewIds |->
             CASE thrown -> generatedViews[v]
               [] ~thrown /\ call.impl = 1 /\ v \in call.targets ->
                    [generatedViews[v] EXCEPT
                       !.isLoading = FALSE,
                       !.imageUrl = IF v \in ok THEN newUrl(v) ELSE @]
               [] ~thrown /\ call.impl = 2 /\ v \in ok ->
                    [generatedViews[v] EXCEPT
                       !.isLoading = FALSE, !.imageUrl = newUrl(v)]
               [] OTHER -> generatedViews[v]]
     /\ rotations' = [rotations EXCEPT ![c] = [NoRotation EXCEPT !.state = "done"]]
     /\ obs' = [ObsView(obs) EXCEPT
                  !.rotation = [done |-> TRUE, direction |-> call.direction,
                                ok |-> IF thrown THEN {} ELSE ok,
                                kept |-> IF thrown THEN call.targets
                                                   ELSE call.targets \ ok,
                                src |-> call.urls,
                                before |-> [v \in ViewIds |->
                                              generatedViews[v].imageUrl]]]
     /\ UNCHANGED <<liveVars, viewVars, app, selectedIds, video, inputMode>>

\* ------------------------------------------------------------ video

\* Error messages, as the pieces of text the catch block looks for and the
\* text around them.
NotFoundText == "Requested entity was not found"
VeoAccessError == <<"The selected API Key cannot access the Veo model",
                    ". Please ensure your project is enabled for Veo or try a different key.">>
PromptRequired == <<"Prompt is required for text-to-video">>
Messages == {<<NotFoundText, ".">>, <<"HTTP ", "404", " NOT_FOUND">>,
             <<"Video generation failed">>, <<"No video URI returned">>,
             <<"Failed to download video content">>}
Rejection == <<"rejected">>

\* errorMessage.includes(text)
MessageIncludes(message, text) == \E i \in 1..Len(message) : message[i] = text

\* part_001:328
NeedsKeyReselect(message) ==
  (MessageIncludes(message, NotFoundText) \/ MessageIncludes(message, "404")) /\ aistudio

Throw(v, message) == [v EXCEPT !.pc = "done", !.thrown = message]

\* the catch block retrying while retryCount < 2
VideoCatchRetriesTwice(v, message) ==
  LET w == [v EXCEPT !.failures = Append(@, message)]
  IN IF NeedsKeyReselect(message)
       THEN IF v.retryCount < 2
              THEN [w EXCEPT !.pc = "reselect", !.reselects = @ + 1]
              ELSE Throw(w, VeoAccessError)
       ELSE Throw(w, message)

\* the catch block, part_001:322-341
VideoCatch(v, message) ==
  LET w == [v EXCEPT !.failures = Append(@, message)]
  IN IF NeedsKeyReselect(message)
       THEN IF v.retryCount < 1
              THEN [w EXCEPT !.pc = "reselect", !.reselects = @ + 1]
              ELSE Throw(w, VeoAccessError)
       ELSE Throw(w, message)

\* the try block up to its first await, part_001:280-302
VideoTry(v) ==
  LET w == [v EXCEPT !.attempts = @ + 1]
  IN IF ~v.hasImage /\ v.prompt = ""
       THEN VideoCatch(w, PromptRequired)
       ELSE [w EXCEPT !.pc = "generate"]

\* generateVideo(prompt, aspectRatio, base64Image, mimeType) called by the
\* application, part_001:250-264
GenerateVideo(prompt, hasImage) ==
  /\ video.pc \in {"idle", "done"}
  /\ LET v == [NoVideo EXCEPT !.prompt = prompt, !.hasImage = hasImage]
     IN video' = IF aistudio
                   THEN [v EXCEPT !.pc = "hasKey", !.keyChecks = {v.retryCount}]
                   ELSE VideoTry(v)
  /\ UNCHANGED <<liveVars, viewVars, obs, app, generatedViews, selectedIds,
                 rotations, inputMode>>

\* await win.aistudio.hasSelectedApiKey() settles, part_001:260-263
VideoHasKeySettles(outcome) ==
  /\ video.pc = "hasKey"
  /\ video' = CASE outcome = "true" -> VideoTry(video)
                [] outcome = "false" -> [video EXCEPT !.pc = "selectKey"]
                [] OTHER -> Throw(video, Rejection)
  /\ UNCHANGED <<liveVars, viewVars, obs, app, generatedViews, selectedIds,
                 rotations, inputMode>>

\* await win.aistudio.openSelectKey() of the initial check settles, part_001:262
VideoSelectKeySettles(resolved) ==
  /\ video.pc = "selectKey"
  /\ video' = IF resolved THEN VideoTry(video) ELSE Throw(video, Rejection)
  /\ UNCHANGED <<liveVars, viewVars, obs, app, generatedViews, selectedIds,
                 rotations, inputMode>>

\* the request, the polling and the download all succeed, part_001:284-320
VideoSucceeds ==
  /\ video.pc = "generate"
  /\ video' = [video EXCEPT !.pc = "done", !.result = "url"]
  /\ UNCHANGED <<liveVars, viewVars, obs, app, generatedViews, selectedIds,
                 rotations, inputMode>>

\* one of them fails with the given message, part_001:284-322
VideoFails(message) ==
  /\ video.pc = "generate"
  /\ video' = VideoCatch(video, message)
  /\ UNCHANGED <<liveVars, viewVars, obs, app, generatedViews, selectedIds,
                 rotations, inputMode>>

\* await win.aistudio.openSelectKey() of the catch block settles and
\* generateVideo calls itself with retryCount + 1, part_001:333-335, 259
VideoReselectSettles(resolved) ==
  /\ video.pc = "reselect"
  /\ video' = IF resolved
                THEN VideoTry([video EXCEPT !.retryCount = @ + 1])
                ELSE Throw(video, Rejection)
  /\ UNCHANGED <<liveVars, viewVars, obs, app, generatedViews, selectedIds,
                 rotations, inputMode>>

\* ------------------------------------------------------------ crop editor

\* Displayed sizes of the image being cropped (img.width, img.height). All are
\* multiples of 10, so that 80% and 10% of each side are whole pixels.
ImageSizes == {<<1000, 800>>, <<100, 60>>, <<40, 40>>}

\* clientX/clientY of the pointer events delivered to the crop editor
PointerPos == {<<0, 0>>, <<30, 20>>, <<2000, 2000>>}

Handles == {"nw", "ne", "sw", "se", "n", "e", "s", "w"}

\* handle.includes(c)
Includes(handle, c) ==
  c \in (CASE handle = "nw" -> {"n", "w"}
           [] handle = "ne" -> {"n", "e"}
           [] handle = "sw" -> {"s", "w"}
           [] handle = "se" -> {"s", "e"}
           [] OTHER -> {handle})

\* the rectangle onImageLoad sets, ImageCropper.tsx:23-33
InitialCrop(width, height) ==
  LET cropW == (width * 8) \div 10
      cropH == (height * 8) \div 10
  IN [x |-> (width - cropW) \div 2, y |-> (height - cropH) \div 2,
      width |-> cropW, height |-> cropH]

\* the 'w' branch with the width left as it was at pointer-down
PointerMoveCropKeepsWidth(ai, clientX, clientY, imgW, imgH) ==
  LET startCrop == ai.startCrop
      deltaX == clientX - ai.startX
      safeDelta == Min(Max(deltaX, -startCrop.x), startCrop.width - MinSize)
  IN IF ai.type = "resize" /\ Includes(ai.handle, "w")
       THEN [startCrop EXCEPT !.x = startCrop.x + safeDelta]
       ELSE startCrop

\* newCrop of handlePointerMove, ImageCropper.tsx:58-90
PointerMoveCrop(ai, clientX, clientY, imgW, imgH) ==
  LET startCrop == ai.startCrop
      deltaX == clientX - ai.startX
      deltaY == clientY - ai.startY
      moved == [startCrop EXCEPT
                  !.x = Min(Max(startCrop.x + deltaX, 0), imgW - startCrop.width),
                  !.y = Min(Max(startCrop.y + deltaY, 0), imgH - startCrop.height)]
      e == IF Includes(ai.handle, "e")
             THEN [startCrop EXCEPT !.width =
                     Max(MinSize, Min(startCrop.width + deltaX, imgW - startCrop.x))]
             ELSE startCrop
      s == IF Includes(ai.handle, "s")
             THEN [e EXCEPT !.height =
                     Max(MinSize, Min(startCrop.height + deltaY, imgH - startCrop.y))]
             ELSE e
      safeDeltaX == Min(Max(deltaX, -startCrop.x), startCrop.width - MinSize)
      w == IF Includes(ai.handle, "w")
             THEN [s EXCEPT !.x = startCrop.x + safeDeltaX,
                            !.width = startCrop.width - safeDeltaX]
             ELSE s
      safeDeltaY == Min(Max(deltaY, -startCrop.y), startCrop.height - MinSize)
      n == IF Includes(ai.handle, "n")
             THEN [w EXCEPT !.y = startCrop.y + safeDeltaY,
                            !.height = startCrop.height - safeDeltaY]
             ELSE w
  IN CASE ai.type = "move" -> moved
       [] ai.type = "resize" -> n
       [] OTHER -> startCrop

\* the crop editor is unmounted: its state and refs are gone
Unmount ==
  /\ crop' = NoCrop /\ loaded' = FALSE /\ img' = NoImg
  /\ activeInteraction' = NoInteraction

\* onImageLoad, ImageCropper.tsx:20-35
OnImageLoad(width, height) ==
  /\ isCropping /\ ~loaded
  /\ img' = [width |-> width, height |-> height]
  /\ crop' = InitialCrop(width, height)
  /\ loaded' = TRUE
  /\ obs' = ObsView(obs)
  /\ UNCHANGED <<liveVars, appVars, lightboxVars, activeInteraction, nDrags>>

\* handlePointerDown on the rectangle ('move') or on one of the eight
\* handles ('resize'), ImageCropper.tsx:37-51; they are rendered once loaded
CropperPointerDown(type, handle, p) ==
  /\ isCropping /\ loaded
  /\ nDrags < MaxDrags
  /\ activeInteraction' = [type |-> type, handle |-> handle,
                           startX |-> p[1], startY |-> p[2], startCrop |-> crop]
  /\ nDrags' = nDrags + 1
  /\ obs' = ObsView(obs)
  /\ UNCHANGED <<liveVars, appVars, lightboxVars, crop, loaded, img>>

\* handlePointerMove, ImageCropper.tsx:53-93
CropperPointerMove(p) ==
  /\ isCropping
  /\ activeInteraction # NoInteraction
  /\ crop' = PointerMoveCrop(activeInteraction, p[1], p[2], img.width, img.height)
  /\ obs' = ObsView(obs)
  /\ UNCHANGED <<liveVars, appVars, lightboxVars, loaded, img, activeInteraction, nDrags>>

\* handlePointerUp (also bound to pointer-leave), ImageCropper.tsx:95-106
CropperPointerUp ==
  /\ isCropping
  /\ activeInteraction # NoInteraction
  /\ activeInteraction' = NoInteraction
  /\ obs' = ObsView(obs)
  /\ UNCHANGED <<liveVars, appVars, lightboxVars, crop, loaded, img, nDrags>>

\* outcome of onSaveClick, ImageCropper.tsx:108-134: with a 2D context the
\* cropped image is handed to onSave; without one the function falls off its
\* end. Nothing in it throws.
SaveOutcome(ctx) == IF ctx THEN "saved" ELSE "returned"

\* click on the crop editor's save button; ctx tells whether
\* canvas.getContext('2d') returned a context. onSave is the callback of
\* GeneratedGrid.tsx:533-536 and 979, which leaves cropping mode.
OnSaveClick(ctx) ==
  /\ isCropping /\ loaded
  /\ obs' = [ObsView(obs) EXCEPT
               !.commit = [ctx |-> ctx, outcome |-> SaveOutcome(ctx), cropBefore |-> crop]]
  /\ IF SaveOutcome(ctx) = "saved"
       THEN /\ isCropping' = FALSE
            /\ Unmount
       ELSE UNCHANGED <<isCropping, cropperVars>>
  /\ UNCHANGED <<liveVars, appVars, grid, lightboxViewId, isComparing, zoom, pan,
                 isDragging, dragStartRef, nDrags>>

\* click on the crop editor's cancel button, GeneratedGrid.tsx:532 and 979
OnCancel ==
  /\ isCropping /\ loaded
  /\ isCropping' = FALSE
  /\ Unmount
  /\ obs' = ObsView(obs)
  /\ UNCHANGED <<liveVars, appVars, grid, lightboxViewId, isComparing, zoom, pan,
                 isDragging, dragStartRef, nDrags>>

\* ------------------------------------------------------------ lightbox

\* click on a grid item's image opens the lightbox, GeneratedGrid.tsx:185 and
\* 819; g is the GeneratedGrid component the page mounts
OpenLightbox(g) ==
  /\ lightboxViewId = NULL
  /\ grid \in {0, g}
  /\ grid' = g
  /\ lightboxViewId' = 1
  /\ obs' = ObsView(obs)
  /\ UNCHANGED <<liveVars, appVars, isComparing, isCropping, zoom, pan, isDragging,
                 dragStartRef, cropperVars, nDrags>>

\* click on the compare toggle: the first component renders it only while not
\* cropping (GeneratedGrid.tsx:463-481), the second one always (963-965)
CompareClick ==
  /\ lightboxViewId # NULL
  /\ grid = 1 => ~isCropping
  /\ isComparing' = ~isComparing
  /\ obs' = ObsView(obs)
  /\ UNCHANGED <<liveVars, appVars, grid, lightboxViewId, isCropping, zoom, pan,
                 isDragging, dragStartRef, cropperVars, nDrags>>

\* click on the crop button, GeneratedGrid.tsx:484-498 and 966-970
CropClick ==
  /\ lightboxViewId # NULL
  /\ ~isComparing /\ ~isCropping
  /\ isCropping' = TRUE
  /\ obs' = ObsView(obs)
  /\ UNCHANGED <<liveVars, appVars, grid, lightboxViewId, isComparing, zoom, pan,
                 isDragging, dragStartRef, cropperVars, nDrags>>

\* handleCloseLightbox, GeneratedGrid.tsx:53-60 and 692-699
HandleCloseLightbox ==
  /\ lightboxViewId # NULL
  /\ lightboxViewId' = NULL
  /\ isComparing' = FALSE
  /\ isCropping' = FALSE
  /\ zoom' = ZoomUnit
  /\ pan' = Origin
  /\ Unmount
  /\ obs' = ObsView(obs)
  /\ UNCHANGED <<liveVars, appVars, grid, isDragging, dragStartRef, nDrags>>

\* ------------------------------------------------------------ zoom and pan

\* deltaY of the wheel events: scale factors 2, 0.5, 0 and -1
WheelDeltas == {-1000, 500, 1000, 2000}

\* the updater of handleWheel without the upper clamp
WheelZoomNoCeiling(z, deltaY) ==
  LET delta == -deltaY
      scale == ZoomUnit + delta
  IN Max(ZoomMin, (z * scale) \div ZoomUnit)

\* the updater handleWheel passes to setZoom, GeneratedGrid.tsx:65-69 and
\* 703-706; z and the result are in 1/ZoomUnit, and so is scale
WheelZoom(z, deltaY) ==
  LET delta == -deltaY
      scale == ZoomUnit + delta
  IN Min(Max(ZoomMin, (z * scale) \div ZoomUnit), ZoomMax)

\* the zoom and pan container is rendered in place of the crop editor
ContainerShown == lightboxViewId # NULL /\ ~isCropping

\* handleWheel, GeneratedGrid.tsx:63-70 and 701-707
HandleWheel(deltaY) ==
  /\ ContainerShown
  /\ zoom' = WheelZoom(zoom, deltaY)
  /\ obs' = [ObsView(obs) EXCEPT
               !.wheel = [fired |-> TRUE, deltaY |-> deltaY, before |-> zoom]]
  /\ UNCHANGED <<liveVars, appVars, grid, lightboxViewId, isComparing, isCropping, pan,
                 isDragging, dragStartRef, cropperVars, nDrags>>

\* click on the reset button of the first component, GeneratedGrid.tsx:503-510
ResetView ==
  /\ grid = 1
  /\ ContainerShown
  /\ zoom # ZoomUnit \/ pan # Origin
  /\ zoom' = ZoomUnit
  /\ pan' = Origin
  /\ obs' = ObsView(obs)
  /\ UNCHANGED <<liveVars, appVars, grid, lightboxViewId, isComparing, isCropping,
                 isDragging, dragStartRef, cropperVars, nDrags>>

\* the pan of a pointer-move with clientY left out
PanAtIgnoresClientY(p, dragStart) ==
  [x |-> p[1] - dragStart.x, y |-> 0 - dragStart.y]

\* the pan handlePointerMove sets, GeneratedGrid.tsx:83-86 and 720-723
PanAt(p, dragStart) ==
  [x |-> p[1] - dragStart.x, y |-> p[2] - dragStart.y]

\* handlePointerDown, GeneratedGrid.tsx:72-78 and 709-715; button 0 is the
\* left button
LightboxPointerDown(button, p) ==
  /\ ContainerShown
  /\ IF button # 0
       THEN /\ obs' = [ObsView(obs) EXCEPT
                         !.ignored = [kind |-> "down", panBefore |-> pan]]
            /\ UNCHANGED <<isDragging, dragStartRef, nDrags>>
       ELSE /\ nDrags < MaxDrags
            /\ isDragging' = TRUE
            /\ dragStartRef' = [x |-> p[1] - pan.x, y |-> p[2] - pan.y]
            /\ nDrags' = nDrags + 1
            /\ obs' = [ObsView(obs) EXCEPT
                         !.drag = [panAtDown |-> pan, down |-> [x |-> p[1], y |-> p[2]]]]
  /\ UNCHANGED <<liveVars, appVars, grid, lightboxViewId, isComparing, isCropping, zoom,
                 pan, cropperVars>>

\* handlePointerMove, GeneratedGrid.tsx:80-87 and 717-724
LightboxPointerMove(p) ==
  /\ ContainerShown
  /\ IF ~isDragging
       THEN /\ obs' = [ObsView(obs) EXCEPT
                         !.ignored = [kind |-> "move", panBefore |-> pan]]
            /\ UNCHANGED pan
       ELSE /\ pan' = PanAt(p, dragStartRef)
            /\ obs' = [ObsView(obs) EXCEPT
                         !.panMove = [fired |-> TRUE, cur |-> [x |-> p[1], y |-> p[2]]]]
  /\ UNCHANGED <<liveVars, appVars, grid, lightboxViewId, isComparing, isCropping, zoom,
                 isDragging, dragStartRef, cropperVars, nDrags>>

\* handlePointerUp (also bound to pointer-leave), GeneratedGrid.tsx:89-92 and
\* 726-729
LightboxPointerUp ==
  /\ ContainerShown
  /\ isDragging
  /\ isDragging' = FALSE
  /\ obs' = ObsView(obs)
  /\ UNCHANGED <<liveVars, appVars, grid, lightboxViewId, isComparing, isCropping, zoom,
                 pan, dragStartRef, cropperVars, nDrags>>

\* ------------------------------------------------------------ specifications

\* Session lifecycle: any interleaving of start() and stop() calls with the
\* settling of their awaits and the transport's open/close/error events.
Next ==
  \/ Stop
  \/ \E k \in Calls : Start(k)
  \/ \E k \in Calls, b \in BOOLEAN : HasKeyResolves(k, b)
  \/ \E k \in Calls : HasKeyRejects(k)
  \/ \E k \in Calls : SelectKeyResolves(k)
  \/ \E k \in Calls : SelectKeyRejects(k)
  \/ \E k \in Calls : GetUserMediaResolves(k)
  \/ \E k \in Calls : GetUserMediaRejects(k)
  \/ \E k \in Calls : ConnectResolves(k)
  \/ \E k \in Calls : ConnectRejects(k)
  \/ \E k \in Calls : OnClose(k)
  \/ \E k \in Calls : OnError(k)

Spec == Init /\ [][Next]_vars

Audio == {"none", "ok", "bad"}

\* Playback pipeline of one session: the first start() call, stop(), and the
\* inbound messages of its connection.
NextPlayback ==
  \/ Stop
  \/ Start(1)
  \/ \E b \in BOOLEAN : HasKeyResolves(1, b)
  \/ SelectKeyResolves(1)
  \/ GetUserMediaResolves(1)
  \/ ConnectResolves(1)
  \/ \E a \in Audio, d \in 1..MaxDur, i \in BOOLEAN :
       OnMessage(1, a, IF a = "ok" THEN d ELSE 0, i)
  \/ Resume
  \/ Tick
  \/ \E m \in MsgIds : SourceEnded(m)

SpecPlayback == Init /\ [][NextPlayback]_vars

\* The live panel of the interface and the session it starts and stops.
NextUI ==
  \/ ToggleLiveSession
  \/ \E mode \in InputModes : SetInputModeAndClear(mode)
  \/ \E k \in Calls, b \in BOOLEAN : HasKeyResolves(k, b)
  \/ \E k \in Calls : HasKeyRejects(k)
  \/ \E k \in Calls : SelectKeyResolves(k)
  \/ \E k \in Calls : SelectKeyRejects(k)
  \/ \E k \in Calls : GetUserMediaResolves(k)
  \/ \E k \in Calls : GetUserMediaRejects(k)
  \/ \E k \in Calls : ConnectResolves(k)
  \/ \E k \in Calls : ConnectRejects(k)
  \/ \E k \in Calls : OnClose(k)
  \/ \E k \in Calls : OnError(k)

SpecUI == Init /\ [][NextUI]_vars

\* rotateImage applied, through handleRotate, to the image of one view.
NextRotate ==
  \/ \E url \in Images : AddView(1, url)
  \/ \E impl \in {1, 2}, d \in Directions : HandleRotate(impl, 1, d)
  \/ \E c \in RotateIds, failed \in SUBSET {1} : RotateSettled(c, failed)

SpecRotate == Init /\ [][NextRotate]_vars

\* The grid's views, their selection and the rotations in progress.
NextViews ==
  \/ \E v \in ViewIds, url \in {NoImage, MakeImage(2, 1)} : AddView(v, url)
  \/ \E v \in ViewIds : ToggleSelection(v)
  \/ \E impl \in {1, 2}, v \in ViewIds, d \in Directions : HandleRotate(impl, v, d)
  \/ \E c \in RotateIds, failed \in SUBSET ViewIds : RotateSettled(c, failed)

SpecViews == Init /\ [][NextViews]_vars

\* One generateVideo call after another.
NextVideo ==
  \/ \E prompt \in {"", "a prompt"}, hasImage \in BOOLEAN : GenerateVideo(prompt, hasImage)
  \/ \E outcome \in {"true", "false", "rejected"} : VideoHasKeySettles(outcome)
  \/ \E resolved \in BOOLEAN : VideoSelectKeySettles(resolved)
  \/ VideoSucceeds
  \/ \E message \in Messages : VideoFails(message)
  \/ \E resolved \in BOOLEAN : VideoReselectSettles(resolved)

SpecVideo == Init /\ [][NextVideo]_vars

\* Session lifecycle with the microphone blocks the input contexts deliver.
NextCapture ==
  \/ Next
  \/ \E c \in Calls : AudioProcess(c)

SpecCapture == Init /\ [][NextCapture]_vars

\* Cropping in the lightbox: the mode toggles of the lightbox and the pointer
\* gestures and buttons of the crop editor.
NextCrop ==
  \/ \E g \in {1, 2} : OpenLightbox(g)
  \/ CompareClick
  \/ CropClick
  \/ HandleCloseLightbox
  \/ \E sz \in ImageSizes : OnImageLoad(sz[1], sz[2])
  \/ \E p \in PointerPos : CropperPointerDown("move", "", p)
  \/ \E h \in Handles, p \in PointerPos : CropperPointerDown("resize", h, p)
  \/ \E p \in PointerPos : CropperPointerMove(p)
  \/ CropperPointerUp
  \/ \E ctx \in BOOLEAN : OnSaveClick(ctx)
  \/ OnCancel

SpecCrop == Init /\ [][NextCrop]_vars

\* Mouse buttons of a pointer-down: left, middle, right
Buttons == {0, 1, 2}

\* Viewing in the lightbox: wheel zoom, drag pan, reset, compare and close.
NextZoom ==
  \/ \E g \in {1, 2} : OpenLightbox(g)
  \/ CompareClick
  \/ HandleCloseLightbox
  \/ \E d \in WheelDeltas : HandleWheel(d)
  \/ ResetView
  \/ \E b \in Buttons, p \in PointerPos : LightboxPointerDown(b, p)
  \/ \E p \in PointerPos : LightboxPointerMove(p)
  \/ LightboxPointerUp

SpecZoom == Init /\ [][NextZoom]_vars

\* ------------------------------------------------------------ properties

TornDown ==
  /\ activeSession = NULL /\ sessionPromise = NULL
  /\ activeInputContext = NULL /\ activeOutputContext = NULL
  /\ activeMediaStream = NULL /\ activeSources = {}

Live(k) == conn[k] \in {"connecting", "open"}

\* C1: if stopLiveSession() is called while a startLiveSession() call is
\* suspended at one of its awaits, then once that call has settled the system
\* is fully torn down (every global reference null, activeSources empty).
C1_StopDuringStartTearsDown ==
  \A k \in obs.cancelled : pc[k] = "done" => TornDown

\* C2: at most one live session process-wide: never two transport
\* connections that are both connecting or open.
C2_AtMostOneConnection ==
  Cardinality({k \in Calls : Live(k)}) <= 1

\* C3: stopLiveSession() is idempotent and safe with no session: right after
\* any call the slot is empty (activeSession and sessionPromise null), and a
\* further call would leave the state exactly as it is.
C3_StopIdempotent ==
  obs.stops >= 1 =>
    /\ activeSession = NULL /\ sessionPromise = NULL
    /\ StopLiveSession(Cur) = Cur

\* stop() was called twice in a row after a start() that had acquired its
\* audio contexts
C3_Witness ==
  obs.stops = 2 /\ ctxIn[1] = "closed" /\ ctxOut[1] = "closed"

\* C4: stopLiveSession() closes the Session Transport: right after stop()
\* no connection is still connecting or open.
C4_StopClosesTransport ==
  obs.stops >= 1 => \A k \in Calls : ~Live(k)

\* C5: immediately after stopLiveSession() returns every acquired microphone
\* track has been stopped, both audio contexts are closed and their
\* references null, every source has been stopped, activeSources is empty
\* and nextStartTime is reset.
C5_StopReleasesAcquired ==
  obs.stops >= 1 =>
    /\ \A k \in Calls : stream[k] # "live" /\ ctxIn[k] # "running" /\ ctxOut[k] # "running"
    /\ activeInputContext = NULL /\ activeOutputContext = NULL
    /\ activeMediaStream = NULL
    /\ \A m \in MsgIds : sources[m].state # "playing"
    /\ activeSources = {} /\ nextStartTime = 0

\* C6: chunks are started in arrival order and never overlap: each chunk's
\* start time is at least the previous chunk's start time plus its duration,
\* and exactly that when the output clock has not passed that cursor.
C6_SchedulingMonotone ==
  \A i \in 2..Len(obs.schedLog) :
    LET a == obs.schedLog[i - 1]
        b == obs.schedLog[i]
    IN /\ a.id < b.id
       /\ b.start >= a.start + a.dur
       /\ b.clock <= a.start + a.dur => b.start = a.start + a.dur

\* two chunks whose handlers overlapped at the await were started back to back
C6_Witness ==
  /\ Len(obs.schedLog) >= 2
  /\ obs.schedLog[1].overlap
  /\ obs.schedLog[2].start = obs.schedLog[1].start + obs.schedLog[1].dur

\* C7: interruption wins over an in-flight enqueue: a chunk whose handler was
\* suspended when an interruption was processed is never started.
C7_InterruptionWins ==
  \A m \in obs.flushedInFlight : sources[m].state = "none"

C9_RemoteCloseTearsDown ==
  obs.remote =>
    /\ TornDown
    /\ \A k \in Calls : stream[k] # "live" /\ ctxIn[k] # "running" /\ ctxOut[k] # "running"

\* C10: when a setup step of startLiveSession() fails, the call reports
\* 'error', settles, and no resource that call acquired remains held.
C10_SetupFailureReleases ==
  \A k \in obs.failed :
    /\ pc[k] = "done"
    /\ statusLog[k] = <<"connecting", "error">>
    /\ stream[k] # "live" /\ ctxIn[k] # "running" /\ ctxOut[k] # "running"
    /\ ~Live(k)

\* C11: a decode failure on an inbound audio payload affects that message
\* only: the failing chunk is never scheduled and no error escapes the
\* handler uncaught.
C11_DecodeFailureContained ==
  \A m \in obs.decodeFailed :
    /\ sources[m].state = "none"
    /\ "decode" \notin uncaught

\* C12: once the image has loaded, and after every pointer-move of every move
\* or resize drag, the crop rectangle lies inside the displayed image and is at
\* least MinSize wide and high.
C12_CropInvariant ==
  loaded =>
    /\ crop.x >= 0 /\ crop.y >= 0
    /\ crop.x + crop.width <= img.width
    /\ crop.y + crop.height <= img.height
    /\ crop.width >= MinSize /\ crop.height >= MinSize

\* C13: during a resize drag a handle containing 'w' keeps the east edge and
\* one containing 'n' keeps the south edge where they were at pointer-down, a
\* handle containing 'e' (resp. 's') leaves x (resp. y) unchanged, the pure
\* handles n and s leave x and width unchanged, and the pure handles e and w
\* leave y and height unchanged.
C13_ResizeFrame ==
  activeInteraction.type = "resize" =>
    LET h == activeInteraction.handle
        s == activeInteraction.startCrop
    IN /\ Includes(h, "w") => crop.x + crop.width = s.x + s.width
       /\ Includes(h, "n") => crop.y + crop.height = s.y + s.height
       /\ Includes(h, "e") => crop.x = s.x
       /\ Includes(h, "s") => crop.y = s.y
       /\ h \in {"n", "s"} => crop.x = s.x /\ crop.width = s.width
       /\ h \in {"e", "w"} => crop.y = s.y /\ crop.height = s.height

C13_Witness ==
  /\ activeInteraction.type = "resize"
  /\ activeInteraction.handle = "nw"
  /\ crop.x # activeInteraction.startCrop.x
  /\ crop.y # activeInteraction.startCrop.y

\* C14: in the lightbox, isCropping and isComparing are never both true.
C14_CropCompareExclusive == ~(isCropping /\ isComparing)

\* C17: a click on save that finds no 2D context reports the failure to its
\* caller, leaves the crop rectangle as it was, stays in cropping mode and
\* does not invoke onSave.
C17_CommitFailureReported ==
  (obs.commit.outcome # "none" /\ ~obs.commit.ctx) =>
    /\ obs.commit.outcome = "threw"
    /\ crop = obs.commit.cropBefore
    /\ isCropping

\* C15: zoom is always within [0.1, 8], and a wheel event sets it to the
\* product of the zoom before it and 1 + delta * 0.001, clamped to that range,
\* also when that factor is zero or negative.
C15_ZoomInRange ==
  /\ zoom >= ZoomMin /\ zoom <= ZoomMax
  /\ obs.wheel.fired =>
       LET product == (obs.wheel.before * (ZoomUnit - obs.wheel.deltaY)) \div ZoomUnit
       IN /\ product < ZoomMin => zoom = ZoomMin
          /\ product > ZoomMax => zoom = ZoomMax
          /\ (product >= ZoomMin /\ product <= ZoomMax) => zoom = product

C15_Witness ==
  /\ obs.wheel.fired
  /\ obs.wheel.before = ZoomMax
  /\ ZoomUnit - obs.wheel.deltaY < 0
  /\ zoom = ZoomMin

\* C16: after every pointer-move of a left-button drag the pan is the pan at
\* the pointer-down plus the pointer's displacement since; a pointer-move with
\* no drag in progress and a pointer-down of another button leave the pan as
\* it was.
C16_PanDragExact ==
  /\ obs.panMove.fired =>
       /\ pan.x = obs.drag.panAtDown.x + (obs.panMove.cur.x - obs.drag.down.x)
       /\ pan.y = obs.drag.panAtDown.y + (obs.panMove.cur.y - obs.drag.down.y)
  /\ obs.ignored.kind # "none" => pan = obs.ignored.panBefore

C16_Witness ==
  /\ obs.panMove.fired
  /\ obs.drag.panAtDown # Origin
  /\ obs.panMove.cur # obs.drag.down
  /\ nDrags = 2

\* C18: a call initiates the connection only after the credential gate: if
\* the host API is present, hasSelectedApiKey() has resolved by then; if it
\* resolved false, openSelectKey() has resolved too; if it resolved true,
\* openSelectKey() was never called; if the host API is absent, the call goes
\* straight to the audio setup without consulting the gate.
C18_CredentialGate ==
  \A k \in Calls :
    /\ obs.gate[k].hasKey = "true" => ~obs.gate[k].selectCalled
    /\ obs.initiated.call = k =>
         LET g == obs.initiated.gate
         IN /\ conn[k] = "connecting"
            /\ aistudio => g.hasKey # "unknown"
            /\ g.hasKey = "false" => g.selectCalled /\ g.selectResolved
            /\ g.hasKey = "true" => ~g.selectCalled
            /\ ~aistudio => g = NoGate
    /\ (~aistudio /\ pc[k] # "idle") =>
         /\ obs.gate[k] = NoGate
         /\ ctxIn[k] # "none" /\ ctxOut[k] # "none"

C18_Witness ==
  /\ obs.initiated.call = 1
  /\ conn[1] = "connecting"
  /\ obs.initiated.gate.hasKey = "false"
  /\ obs.initiated.gate.selectResolved

\* C19: the first status a startLiveSession() call reports is 'connecting',
\* it reports it once, and it reports 'connected' only if its transport
\* opened.
C19_ConnectingFirst ==
  \A k \in Calls :
    /\ pc[k] # "idle" => Len(statusLog[k]) >= 1
    /\ \A i \in 1..Len(statusLog[k]) : statusLog[k][i] = "connecting" <=> i = 1
    /\ (\E i \in 1..Len(statusLog[k]) : statusLog[k][i] = "connected") =>
         conn[k] \in {"open", "error", "closed"}

C19_Witness ==
  /\ statusLog[1] = <<"connecting", "error">>
  /\ statusLog[2] = <<"connecting", "connected">>
  /\ conn[1] = "refused" /\ conn[2] = "open"

\* C20: 'error' is the last status a session reports, and only a session
\* that is connecting or open reports it, never one the application stopped.
C20_ErrorTerminal ==
  \A k \in Calls :
    /\ \A i \in 1..Len(statusLog[k]) :
         statusLog[k][i] = "error" => i = Len(statusLog[k])
    /\ k \notin obs.staleError

\* C22: an interruption resets nextStartTime to the current clock time of the
\* output pipeline (as does a stop, which leaves no output pipeline behind),
\* and a step that is not a reset never decreases nextStartTime.
C22_CursorResetToClock ==
  [][LET reset == \/ obs'.interrupted
                  \/ obs'.stops > 0
                  \/ obs'.failed # obs.failed
                  \/ \E k \in Calls : pc[k] = "idle" /\ pc'[k] # "idle"
     IN /\ (obs'.interrupted /\ activeOutputContext' # NULL) =>
             nextStartTime' = currentTime'
        /\ ~reset => nextStartTime' >= nextStartTime]_vars

\* C23: activeSources holds exactly the sources that were started and have
\* neither ended nor been stopped by an interruption or a teardown.
C23_ActiveSourcesExact ==
  activeSources = {m \in MsgIds : sources[m].state = "playing"}

C23_Witness ==
  \E m, n \in MsgIds :
    /\ sources[m].state = "ended" /\ m \notin activeSources
    /\ sources[n].state = "playing" /\ n \in activeSources

\* C26: at most one capture stage is live at any time: no two script
\* processors are wired to running input contexts.
C26_SingleCapturePipeline ==
  Cardinality({k \in Calls : /\ processor[k].ctx # NULL
                              /\ ctxIn[processor[k].ctx] = "running"}) <= 1

\* C27: once every startLiveSession() call made has settled and the
\* application's stopLiveSession() has just returned, no microphone stream
\* obtained by any of the calls has live tracks.
C27_NoStreamLeak ==
  (obs.stops > 0 /\ \A k \in Calls : pc[k] \in {"idle", "done"}) =>
    \A k \in Calls : stream[k] # "live"

\* C29: a message carrying interrupted = true always gets the interruption
\* processed, whatever becomes of its audio payload: when its handler has
\* ended, no source is playing, activeSources is empty and the cursor is reset.
C29_InterruptedIndependent ==
  (obs.handled.id # 0 /\ obs.handled.interrupted) =>
    /\ obs.interrupted
    /\ activeSources = {} /\ nextStartTime = 0
    /\ \A m \in MsgIds : sources[m].state # "playing"

\* C21: every captured block leads to exactly one send, of mime type
\* audio/pcm;rate=16000; a send is made only on a connection that has opened;
\* and no block is forwarded while the application has stopped the session
\* and not started a new one.
C21_CaptureAfterOpenOnly ==
  /\ obs.block.fired =>
       /\ obs.block.sends = 1
       /\ obs.block.mimeType = "audio/pcm;rate=16000"
       /\ obs.block.sent > 0 => conn[obs.block.to] # "connecting"
       /\ ~obs.stopped
  /\ obs.flushed > 0 => ~obs.stopped

\* C28: while the user's stop is the latest start or stop of the live session,
\* the interface shows liveStatus 'idle'; no later callback changes it.
C28_IdleAfterUserStop == obs.stopped => liveStatus = "idle"

\* C24: a rotated W x H image is H x W; clockwise, source pixel (x,y) is at
\* (H-1-y, x); counterclockwise, at (y, W-1-x); and rotating the clockwise
\* result counterclockwise gives the source image back.
C24_RotationPixelMap ==
  obs.rotation.done =>
    \A v \in obs.rotation.ok :
      LET src == obs.rotation.src[v]
          out == generatedViews[v].imageUrl
          W == src.width
          H == src.height
          back == RotateImage(RotateImage(src, "clockwise"), "counterclockwise")
      IN /\ out.width = H /\ out.height = W
         /\ DOMAIN out.px = Pixels(H, W)
         /\ \A p \in Pixels(W, H) :
              LET x == p[1]
                  y == p[2]
              IN out.px[IF obs.rotation.direction = "clockwise"
                          THEN <<H - 1 - y, x>>
                          ELSE <<y, W - 1 - x>>] = src.px[p]
         /\ back = src

\* a counterclockwise rotation of a 3 x 2 image that was rotated clockwise
\* before has just finished
C24_Witness ==
  /\ obs.rotation.done /\ obs.rotation.ok = {1}
  /\ obs.rotation.direction = "counterclockwise"
  /\ obs.rotation.src[1] = RotateImage(MakeImage(3, 2), "clockwise")
  /\ generatedViews[1].imageUrl = MakeImage(3, 2)

\* C30: when no handleRotate call is in progress no view is loading, and a
\* call that finishes leaves the imageUrl of every target it did not rotate
\* as it was.
C30_NoViewStuckLoading ==
  /\ (\A c \in RotateIds : rotations[c].state # "pending") =>
       \A v \in ViewIds : ~generatedViews[v].isLoading
  /\ obs.rotation.done =>
       \A v \in obs.rotation.kept :
         generatedViews[v].imageUrl = obs.rotation.before[v]

\* C25: a generateVideo call enters its try block at most twice; the second
\* entry follows a first failure whose message contains 'Requested entity was
\* not found' or '404', with the host API present and openSelectKey() called;
\* such a failure of the second attempt throws the Veo access error; any
\* other failure is rethrown without a retry; and hasSelectedApiKey() is
\* called only with retryCount 0.
C25_Mentions(message) ==
  MessageIncludes(message, "Requested entity was not found") \/ MessageIncludes(message, "404")

C25_SingleRetry ==
  LET n == Len(video.failures)
      last == video.failures[n]
  IN /\ video.attempts <= 2
     /\ video.keyChecks \subseteq {0}
     /\ video.attempts = 2 =>
          /\ C25_Mentions(video.failures[1]) /\ aistudio
          /\ video.reselects = 1 /\ video.retryCount = 1
     /\ (video.pc = "done" /\ n = 2 /\ C25_Mentions(last) /\ aistudio) =>
          video.thrown = VeoAccessError
     /\ (video.pc = "done" /\ n > 0 /\ ~(C25_Mentions(last) /\ aistudio)) =>
          video.thrown = last /\ video.attempts = n
     /\ (n = 1 /\ C25_Mentions(last) /\ aistudio) =>
          \/ video.pc = "reselect" /\ video.reselects = 1
          \/ video.attempts = 2
          \/ video.pc = "done" /\ video.thrown = Rejection

\* the retry failed for want of access as well, and the Veo error was thrown
C25_Witness ==
  /\ video.pc = "done" /\ video.attempts = 2 /\ Len(video.failures) = 2
  /\ video.thrown = VeoAccessError
====
